---- MODULE Spec2Model ----
(***************************************************************************)
(* The two notebooks of the repository as state machines.                  *)
(*                                                                         *)
(*   "falcon"  : src/unnamed/part_000  (Falcon-7B, transformers.pipeline)  *)
(*   "mistral" : src/inference.ipynb   (Mistral-7B, 4-bit, model.generate) *)
(*                                                                         *)
(* A notebook is a kernel namespace (the names its cells have bound), the  *)
(* position of the kernel inside the generation cell, and the outputs the  *)
(* generation cell has stored.  The user runs cells in any order while the *)
(* kernel is idle and may interrupt a generation that is in flight.  The   *)
(* library behind pipeline(...) / model.generate(...) is external: once    *)
(* called it returns, fails, or is interrupted.                            *)
(*                                                                         *)
(* A prompt is represented by the number of tokens it tokenizes to; the    *)
(* empty prompt has 0 tokens.                                              *)
(***************************************************************************)
EXTENDS Integers, Sequences, FiniteSets

VARIABLES nb, ns, pc, exc, prompt, call, sequences, i, outputs,
          execution_count, lastCell, backendCalls, accepted, inFlight,
          interrupts, prevState, profile, loadOutput

vars == <<nb, ns, pc, exc, prompt, call, sequences, i, outputs,
          execution_count, lastCell, backendCalls, accepted, inFlight,
          interrupts, prevState, profile, loadOutput>>

(* ---------------- literals of the generation cells ---------------- *)

max_length == 5000
top_k == 10
num_return_sequences == 1
max_new_tokens == 200
eos_token_id == 11

(* ---------------- bounds of the model ---------------- *)

MaxExecutions == 6
LongPromptExcess == 1

Notebooks == {"falcon", "mistral"}

\* token counts of the prompts the user may put into the generation cell
Prompts == {0, 4} \cup ((max_length - 1) .. (max_length + LongPromptExcess))

(* ---------------- the kernel namespace ---------------- *)

\* what the model of part_000 is loaded with: torch_dtype=torch.bfloat16,
\* no quantization
FalconProfile ==
  [bits |-> {}, quant_type |-> {}, double_quant |-> FALSE,
   compute_dtype |-> "bfloat16"]

\* bnb_config of inference.ipynb: load_in_4bit, double quantization, nf4,
\* bfloat16
BnbConfig ==
  [bits |-> {4}, quant_type |-> {"nf4"}, double_quant |-> TRUE,
   compute_dtype |-> "bfloat16"]

\* names a generation needs, per notebook
Required(n) ==
  IF n = "falcon" THEN {"tokenizer", "pipeline"} ELSE {"tokenizer", "model"}

\* variant: the kernel starts a cell while another one is still executing
KernelReentrant == pc \in {"idle", "call"}

KernelIdle == pc = "idle"

\* variant: the call asks for two sequences instead of the literal 1
FalconKwargsTwoSequences(p) ==
  [prompt |-> p, max_length |-> {max_length}, max_new_tokens |-> {},
   do_sample |-> TRUE, top_k |-> {top_k},
   num_return_sequences |-> {num_return_sequences + 1},
   eos_token_id |-> {eos_token_id}]

\* keyword arguments of pipeline(prompt, ...) in part_000
FalconKwargs(p) ==
  [prompt |-> p, max_length |-> {max_length}, max_new_tokens |-> {},
   do_sample |-> TRUE, top_k |-> {top_k},
   num_return_sequences |-> {num_return_sequences},
   eos_token_id |-> {eos_token_id}]

\* variant: the call passes an end-of-sequence id although the cell has none
MistralKwargsWithEos(p) ==
  [prompt |-> p, max_length |-> {}, max_new_tokens |-> {max_new_tokens},
   do_sample |-> TRUE, top_k |-> {},
   num_return_sequences |-> {}, eos_token_id |-> {eos_token_id}]

\* keyword arguments of model.generate(**model_input, ...) in inference.ipynb
MistralKwargs(p) ==
  [prompt |-> p, max_length |-> {}, max_new_tokens |-> {max_new_tokens},
   do_sample |-> TRUE, top_k |-> {},
   num_return_sequences |-> {}, eos_token_id |-> {}]

Kwargs(n, p) == IF n = "falcon" THEN FalconKwargs(p) ELSE MistralKwargs(p)

\* number of sequences the external generator returns for a call
NumReturned(kw) ==
  IF kw.num_return_sequences = {} THEN 1
  ELSE CHOOSE k \in kw.num_return_sequences : TRUE

(* ---------------- the session state the notebook realizes ---------------- *)

States == {"Uninitialized", "Configured", "Generating",
           "Completed", "Interrupted", "Failed"}

Interrupted ==
  \/ pc = "raise" /\ exc = "KeyboardInterrupt"
  \/ pc = "idle" /\ outputs # <<>> /\ outputs[1].ename = "KeyboardInterrupt"

state ==
  IF pc = "call" THEN "Generating"
  ELSE IF pc = "print" THEN "Completed"
  ELSE IF Interrupted THEN "Interrupted"
  ELSE IF pc = "raise" THEN "Failed"
  ELSE IF Required(nb) \subseteq ns THEN "Configured"
  ELSE "Uninitialized"

Ghost == prevState' = IF state' # state THEN state ELSE prevState

(* ---------------- initial state ---------------- *)

Init ==
  /\ nb \in Notebooks
  /\ ns = {}
  /\ pc = "idle"
  /\ exc = "none"
  /\ prompt = <<>>
  /\ call = <<>>
  /\ sequences = <<>>
  /\ i = 1
  /\ outputs = <<>>
  /\ execution_count = 0
  /\ lastCell = "none"
  /\ backendCalls = 0
  /\ accepted = 0
  /\ inFlight = 0
  /\ interrupts = 0
  /\ prevState = "Uninitialized"
  /\ profile = <<>>
  /\ loadOutput = "none"

(* ---------------- helpers of the cells ---------------- *)

\* a cell is executed: In[n] advances and the other fields listed stay
RunCell(name) ==
  /\ KernelIdle
  /\ execution_count < MaxExecutions
  /\ execution_count' = execution_count + 1
  /\ lastCell' = name

ErrorOutput(ename) ==
  [output_type |-> "error", ename |-> ename, prompt |-> 0, index |-> 0,
   request |-> 0]

StreamOutput(seq) ==
  [output_type |-> "stream", ename |-> "", prompt |-> seq.prompt,
   index |-> seq.index, request |-> seq.request]

\* the one call into the external generator made by the generation cell
Dispatch(kw) ==
  /\ call' = <<kw>>
  /\ backendCalls' = backendCalls + 1
  /\ inFlight' = inFlight + 1
  /\ pc' = "call"

\* what the generation cell prints of the returned sequences:
\* part_000 loops over all of them, inference.ipynb prints decoded[0]
ToPrint == IF nb = "falcon" THEN sequences ELSE SubSeq(sequences, 1, 1)

(* ---------------- setup cells ---------------- *)

\* import cell of either notebook
ImportCell ==
  /\ RunCell("import")
  /\ ns' = ns \cup {"transformers"}
  /\ UNCHANGED <<nb, profile, loadOutput, pc, exc, prompt, call, sequences, i, outputs,
                 backendCalls, accepted, inFlight, interrupts>>
  /\ Ghost

\* variant: a load that raises takes the earlier pipeline away
LoadPipelineCellClearsOnFailure(loaded) ==
  /\ nb = "falcon"
  /\ RunCell("load")
  /\ IF "transformers" \in ns /\ "pipeline" \in loaded
     THEN /\ ns' = ns \cup loaded
          /\ profile' = <<FalconProfile>>
          /\ loadOutput' = "ok"
     ELSE /\ ns' = ns \ {"pipeline"}
          /\ profile' = <<>>
          /\ loadOutput' = "error"
  /\ UNCHANGED <<nb, pc, exc, prompt, call, sequences, i, outputs,
                 backendCalls, accepted, inFlight, interrupts>>
  /\ Ghost

\* part_000: tokenizer = AutoTokenizer.from_pretrained(model);
\*           pipeline = transformers.pipeline(...)
\* loaded = how far the external loading got before it raised, if it did
LoadPipelineCell(loaded) ==
  /\ nb = "falcon"
  /\ RunCell("load")
  /\ ns' = IF "transformers" \in ns THEN ns \cup loaded ELSE ns
  /\ IF "transformers" \in ns /\ "pipeline" \in loaded
     THEN profile' = <<FalconProfile>> /\ loadOutput' = "ok"
     ELSE profile' = profile /\ loadOutput' = "error"
  /\ UNCHANGED <<nb, pc, exc, prompt, call, sequences, i, outputs,
                 backendCalls, accepted, inFlight, interrupts>>
  /\ Ghost

\* inference.ipynb: bnb_config = transformers.BitsAndBytesConfig(...)
BnbConfigCell ==
  /\ nb = "mistral"
  /\ RunCell("bnb_config")
  /\ ns' = IF "transformers" \in ns THEN ns \cup {"bnb_config"} ELSE ns
  /\ UNCHANGED <<nb, profile, loadOutput, pc, exc, prompt, call, sequences, i, outputs,
                 backendCalls, accepted, inFlight, interrupts>>
  /\ Ghost

\* inference.ipynb: model = AutoModelForCausalLM.from_pretrained(
\*                     ..., quantization_config=bnb_config)
LoadModelCell(ok) ==
  /\ nb = "mistral"
  /\ RunCell("load")
  /\ ns' = IF {"transformers", "bnb_config"} \subseteq ns /\ ok
           THEN ns \cup {"model"} ELSE ns
  /\ IF {"transformers", "bnb_config"} \subseteq ns /\ ok
     THEN profile' = <<BnbConfig>> /\ loadOutput' = "ok"
     ELSE profile' = profile /\ loadOutput' = "error"
  /\ UNCHANGED <<nb, pc, exc, prompt, call, sequences, i, outputs,
                 backendCalls, accepted, inFlight, interrupts>>
  /\ Ghost

\* inference.ipynb: tokenizer = AutoTokenizer.from_pretrained(model_name)
LoadTokenizerCell(ok) ==
  /\ nb = "mistral"
  /\ RunCell("tokenizer")
  /\ ns' = IF "transformers" \in ns /\ ok
           THEN ns \cup {"tokenizer"} ELSE ns
  /\ UNCHANGED <<nb, profile, loadOutput, pc, exc, prompt, call, sequences, i, outputs,
                 backendCalls, accepted, inFlight, interrupts>>
  /\ Ghost

(* ---------------- the generation cell ---------------- *)

\* variant: the call is made without looking the names up
GenerateCellNoNameCheck(p) ==
  /\ RunCell("generate")
  /\ Dispatch(Kwargs(nb, p))
  /\ accepted' = accepted + 1
  /\ outputs' = <<>>
  /\ prompt' = <<p>>
  /\ UNCHANGED <<nb, profile, loadOutput, ns, exc, sequences, i, interrupts>>
  /\ Ghost

\* variant: a cell whose last run was interrupted refuses to run again
GenerateCellStickyInterrupt(p) ==
  /\ RunCell("generate")
  /\ IF Required(nb) \subseteq ns /\ ~Interrupted
     THEN /\ Dispatch(Kwargs(nb, p))
          /\ accepted' = accepted + 1
          /\ outputs' = <<>>
     ELSE /\ UNCHANGED <<call, backendCalls, inFlight, pc, accepted,
                         outputs>>
  /\ prompt' = <<p>>
  /\ UNCHANGED <<nb, profile, loadOutput, ns, exc, sequences, i, interrupts>>
  /\ Ghost

\* variant: the cell checks the prompt and refuses the empty one
GenerateCellRejectEmpty(p) ==
  /\ RunCell("generate")
  /\ IF Required(nb) \subseteq ns /\ p # 0
     THEN /\ Dispatch(Kwargs(nb, p))
          /\ accepted' = accepted + 1
          /\ outputs' = <<>>
     ELSE /\ outputs' = <<ErrorOutput("ValidationError")>>
          /\ UNCHANGED <<call, backendCalls, inFlight, pc, accepted>>
  /\ prompt' = <<p>>
  /\ UNCHANGED <<nb, profile, loadOutput, ns, exc, sequences, i, interrupts>>
  /\ Ghost

\* variant: the cell refuses a prompt that max_length does not exceed
GenerateCellRejectTooLong(p) ==
  /\ RunCell("generate")
  /\ IF Required(nb) \subseteq ns
        /\ \A m \in Kwargs(nb, p).max_length : m > p
     THEN /\ Dispatch(Kwargs(nb, p))
          /\ accepted' = accepted + 1
          /\ outputs' = <<>>
     ELSE /\ outputs' = <<ErrorOutput("ValidationError")>>
          /\ UNCHANGED <<call, backendCalls, inFlight, pc, accepted>>
  /\ prompt' = <<p>>
  /\ UNCHANGED <<nb, profile, loadOutput, ns, exc, sequences, i, interrupts>>
  /\ Ghost

\* variant: a cell whose last run failed refuses to run again
GenerateCellStickyFailure(p) ==
  /\ RunCell("generate")
  /\ IF /\ Required(nb) \subseteq ns
        /\ ~(outputs # <<>> /\ outputs[1].ename = "Error")
     THEN /\ Dispatch(Kwargs(nb, p))
          /\ accepted' = accepted + 1
          /\ outputs' = <<>>
     ELSE /\ UNCHANGED <<call, backendCalls, inFlight, pc, accepted,
                         outputs>>
  /\ prompt' = <<p>>
  /\ UNCHANGED <<nb, profile, loadOutput, ns, exc, sequences, i, interrupts>>
  /\ Ghost

\* The cell is run with prompt p.  A name the cell needs and the kernel has
\* not bound raises NameError before anything is called; otherwise the
\* prompt goes to the external generator as it is.
GenerateCell(p) ==
  /\ RunCell("generate")
  /\ IF Required(nb) \subseteq ns
     THEN /\ Dispatch(Kwargs(nb, p))
          /\ accepted' = accepted + 1
          /\ outputs' = <<>>
     ELSE /\ outputs' = <<ErrorOutput("NameError")>>
          /\ UNCHANGED <<call, backendCalls, inFlight, pc, accepted>>
  /\ prompt' = <<p>>
  /\ UNCHANGED <<nb, profile, loadOutput, ns, exc, sequences, i, interrupts>>
  /\ Ghost

\* variant: a returning call leaves the model unquantized
BackendReturnRequantizes ==
  /\ pc = "call"
  /\ sequences' = [k \in 1 .. NumReturned(call[1]) |->
                     [prompt |-> call[1].prompt, index |-> k,
                      request |-> backendCalls]]
  /\ i' = 1
  /\ pc' = "print"
  /\ inFlight' = inFlight - 1
  /\ profile' = <<FalconProfile>>
  /\ UNCHANGED <<nb, loadOutput, ns, exc, prompt, call, outputs,
                 execution_count, lastCell, backendCalls, accepted,
                 interrupts>>
  /\ Ghost

\* the external generator returns its sequences
BackendReturn ==
  /\ pc = "call"
  /\ sequences' = [k \in 1 .. NumReturned(call[1]) |->
                     [prompt |-> call[1].prompt, index |-> k,
                      request |-> backendCalls]]
  /\ i' = 1
  /\ pc' = "print"
  /\ inFlight' = inFlight - 1
  /\ UNCHANGED <<nb, profile, loadOutput, ns, exc, prompt, call, outputs, execution_count,
                 lastCell, backendCalls, accepted, interrupts>>
  /\ Ghost

\* variant: the interrupt takes the loaded generator with it
InterruptDropsGenerator ==
  /\ pc = "call"
  /\ pc' = "raise"
  /\ exc' = "KeyboardInterrupt"
  /\ inFlight' = inFlight - 1
  /\ interrupts' = interrupts + 1
  /\ ns' = ns \ {"pipeline", "model"}
  /\ profile' = <<>>
  /\ UNCHANGED <<nb, loadOutput, prompt, call, sequences, i, outputs,
                 execution_count, lastCell, backendCalls, accepted>>
  /\ Ghost

\* variant: the interrupted call hands back what it had generated so far
InterruptKeepsPartial ==
  /\ pc = "call"
  /\ pc' = "raise"
  /\ exc' = "KeyboardInterrupt"
  /\ inFlight' = inFlight - 1
  /\ interrupts' = interrupts + 1
  /\ sequences' = << [prompt |-> call[1].prompt, index |-> 1,
                      request |-> backendCalls] >>
  /\ UNCHANGED <<nb, profile, loadOutput, ns, prompt, call, i, outputs,
                 execution_count, lastCell, backendCalls, accepted>>
  /\ Ghost

\* the user interrupts the kernel while the external generator runs:
\* KeyboardInterrupt is raised inside the call
Interrupt ==
  /\ pc = "call"
  /\ pc' = "raise"
  /\ exc' = "KeyboardInterrupt"
  /\ inFlight' = inFlight - 1
  /\ interrupts' = interrupts + 1
  /\ UNCHANGED <<nb, profile, loadOutput, ns, prompt, call, sequences, i, outputs,
                 execution_count, lastCell, backendCalls, accepted>>
  /\ Ghost

\* variant: the call is made again when the external generator raises
BackendErrorRetry ==
  /\ pc = "call"
  /\ backendCalls' = backendCalls + 1
  /\ UNCHANGED <<nb, profile, loadOutput, ns, pc, exc, prompt, call, sequences, i, outputs,
                 execution_count, lastCell, accepted, inFlight,
                 interrupts>>
  /\ Ghost

\* variant: the failure is caught inside the cell and the call is made
\* again; exc holds the caught exception until the next attempt starts
BackendErrorCaughtAndRepeated ==
  /\ pc = "call"
  /\ exc' = IF exc = "none" THEN "Error" ELSE "none"
  /\ UNCHANGED <<nb, profile, loadOutput, ns, pc, prompt, call, sequences, i,
                 outputs, execution_count, lastCell, backendCalls, accepted,
                 inFlight, interrupts>>
  /\ Ghost

\* the external generator raises (out of memory, ...)
BackendError ==
  /\ pc = "call"
  /\ pc' = "raise"
  /\ exc' = "Error"
  /\ inFlight' = inFlight - 1
  /\ UNCHANGED <<nb, profile, loadOutput, ns, prompt, call, sequences, i, outputs,
                 execution_count, lastCell, backendCalls, accepted,
                 interrupts>>
  /\ Ghost

\* variant: the exception is swallowed, the cell ends without output
ReportTracebackSwallowed ==
  /\ pc = "raise"
  /\ outputs' = <<>>
  /\ exc' = "none"
  /\ pc' = "idle"
  /\ UNCHANGED <<nb, profile, loadOutput, ns, prompt, call, sequences, i,
                 execution_count, lastCell, backendCalls, accepted,
                 inFlight, interrupts>>
  /\ Ghost

\* the exception leaves the cell: the traceback becomes the cell's output
\* and the kernel is idle again
ReportTraceback ==
  /\ pc = "raise"
  /\ outputs' = <<ErrorOutput(exc)>>
  /\ exc' = "none"
  /\ pc' = "idle"
  /\ UNCHANGED <<nb, profile, loadOutput, ns, prompt, call, sequences, i, execution_count,
                 lastCell, backendCalls, accepted, inFlight, interrupts>>
  /\ Ghost

\* variant: the loop runs over the sequences without writing them
PrintResultSkips ==
  /\ pc = "print"
  /\ i <= Len(ToPrint)
  /\ i' = i + 1
  /\ UNCHANGED <<nb, profile, loadOutput, ns, pc, exc, prompt, call, sequences,
                 outputs, execution_count, lastCell, backendCalls, accepted,
                 inFlight, interrupts>>
  /\ Ghost

\* one print(...) of the generation cell
PrintResult ==
  /\ pc = "print"
  /\ i <= Len(ToPrint)
  /\ outputs' = Append(outputs, StreamOutput(ToPrint[i]))
  /\ i' = i + 1
  /\ UNCHANGED <<nb, profile, loadOutput, ns, pc, exc, prompt, call, sequences,
                 execution_count, lastCell, backendCalls, accepted,
                 inFlight, interrupts>>
  /\ Ghost

\* the generation cell has printed everything: the kernel is idle again
CellDone ==
  /\ pc = "print"
  /\ i > Len(ToPrint)
  /\ pc' = "idle"
  /\ UNCHANGED <<nb, profile, loadOutput, ns, exc, prompt, call, sequences, i, outputs,
                 execution_count, lastCell, backendCalls, accepted,
                 inFlight, interrupts>>
  /\ Ghost

Next ==
  \/ ImportCell
  \/ \E loaded \in {{}, {"tokenizer"}, {"tokenizer", "pipeline"}} :
       LoadPipelineCell(loaded)
  \/ BnbConfigCell
  \/ \E ok \in BOOLEAN : LoadModelCell(ok)
  \/ \E ok \in BOOLEAN : LoadTokenizerCell(ok)
  \/ \E p \in Prompts : GenerateCell(p)
  \/ BackendReturn
  \/ Interrupt
  \/ BackendError
  \/ ReportTraceback
  \/ PrintResult
  \/ CellDone

Spec == Init /\ [][Next]_vars

\* the call into the external generator is a blocking call of the cell: the
\* kernel does nothing else until it returns, raises or is interrupted, and
\* the specification below assumes that one of the three happens
LiveSpec == Spec /\ WF_vars(BackendReturn \/ BackendError \/ Interrupt)

TypeOK ==
  /\ nb \in Notebooks
  /\ pc \in {"idle", "call", "raise", "print"}
  /\ exc \in {"none", "KeyboardInterrupt", "Error"}
  /\ state \in States
  /\ Len(call) <= 1
  /\ Len(prompt) <= 1
  /\ Len(profile) <= 1
  /\ loadOutput \in {"none", "ok", "error"}

(* ======================= the claims ======================= *)

\* a step in which the user runs the generation cell
GenerateIssued ==
  execution_count' = execution_count + 1 /\ lastCell' = "generate"

\* the edges of the stated machine
SpecEdges ==
  { <<"Uninitialized", "Configured">>, <<"Configured", "Generating">>,
    <<"Generating", "Completed">>, <<"Generating", "Interrupted">>,
    <<"Generating", "Failed">>, <<"Completed", "Configured">>,
    <<"Failed", "Configured">>, <<"Interrupted", "Configured">> }

\* the edges the notebooks take: an interrupted cell is simply run again
CodeEdges ==
  (SpecEdges \ { <<"Interrupted", "Configured">> })
    \cup { <<"Interrupted", "Generating">> }

\* C1 (as stated): the session is in one of the six states and every state
\* change is an edge of the stated machine; Interrupted is left only to
\* Configured, never straight to Generating.
C1_StatedMachine ==
  [][state' \in States /\ (state' # state => <<state, state'>> \in SpecEdges)]_vars

\* C1 (amended): the session is in one of the six states and every state
\* change is an edge of the stated machine, except that Interrupted is left
\* by the next accepted generate (Interrupted -> Generating) and never by an
\* acknowledgement (there is no Interrupted -> Configured).
C1_CodeMachine ==
  [][state' \in States /\ (state' # state => <<state, state'>> \in CodeEdges)]_vars

C1_Witness == prevState = "Interrupted" /\ state = "Generating"

\* C2 (as stated): an interrupt of a generation in flight moves the session
\* to Interrupted, and a generate issued while Interrupted makes no call
\* into the external generator and leaves the session Interrupted.
C2_FailFast ==
  [][ /\ (interrupts' # interrupts =>
            state = "Generating" /\ state' = "Interrupted")
      /\ (state = "Interrupted" /\ GenerateIssued =>
            backendCalls' = backendCalls /\ state' = "Interrupted") ]_vars

\* C2 (amended): an interrupt of a generation in flight moves the session
\* to Interrupted; a generate issued while Interrupted is accepted without
\* any acknowledgement: it makes exactly one call into the external
\* generator and moves the session to Generating.
C2_RunsAgain ==
  [][ /\ (interrupts' # interrupts =>
            state = "Generating" /\ state' = "Interrupted")
      /\ (state = "Interrupted" /\ GenerateIssued =>
            backendCalls' = backendCalls + 1 /\ state' = "Generating") ]_vars

C2_Witness ==
  /\ interrupts >= 1
  /\ lastCell = "generate"
  /\ prevState = "Interrupted"
  /\ pc = "call"
  /\ backendCalls >= 2

C4_OneCallPerInvocation == backendCalls = accepted

C4_Witness ==
  /\ accepted >= 2
  /\ pc = "idle"
  /\ outputs # <<>>
  /\ outputs[1].ename = "Error"
  /\ interrupts >= 1

\* C5 (as stated): a generate with an empty prompt never reaches the
\* external generator.
C5_EmptyNeverDispatched == pc = "call" => call[1].prompt # 0

\* C5 (amended): a generate with an empty prompt raises no ValidationError:
\* whenever the generator is loaded the empty prompt is dispatched to the
\* external generator exactly once, like any other prompt.
C5_EmptyDispatched ==
  [][ GenerateIssued /\ prompt' = <<0>> /\ Required(nb) \subseteq ns =>
        /\ backendCalls' = backendCalls + 1
        /\ state' = "Generating"
        /\ call'[1].prompt = 0
        /\ outputs' = <<>> ]_vars

C5_Witness == pc = "call" /\ call[1].prompt = 0 /\ prompt = <<0>>

\* max_length, where given, exceeds the prompt; num_return_sequences,
\* where given, is at least 1
LengthsWellFormed(kw) ==
  /\ \A m \in kw.max_length : m > kw.prompt
  /\ \A k \in kw.num_return_sequences : k >= 1

\* C6 (as stated): a request whose absolute max_length does not exceed the
\* prompt length, or whose num_return_sequences is below 1, never reaches
\* the external generator.
C6_MalformedNeverDispatched == pc = "call" => LengthsWellFormed(call[1])

\* C6 (amended): no request is rejected before dispatch: a request whose
\* absolute max_length (5000) does not exceed the tokenized prompt length
\* is dispatched to the external generator exactly once; the request's
\* num_return_sequences is the literal 1, never below 1.
C6_TooLongDispatched ==
  [][ /\ GenerateIssued
      /\ Required(nb) \subseteq ns
      /\ \E m \in Kwargs(nb, prompt'[1]).max_length : m <= prompt'[1]
      => /\ backendCalls' = backendCalls + 1
         /\ state' = "Generating"
         /\ call' = <<Kwargs(nb, prompt'[1])>>
         /\ \A k \in call'[1].num_return_sequences : k >= 1 ]_vars

C6_Witness ==
  /\ pc = "call"
  /\ call[1].max_length = {max_length}
  /\ call[1].prompt >= max_length

C11_NoGenerationBeforeConfigure ==
  [][state = "Uninitialized" =>
       backendCalls' = backendCalls /\ state' # "Generating"]_vars

C11_Witness ==
  /\ state = "Uninitialized"
  /\ lastCell = "generate"
  /\ outputs = <<ErrorOutput("NameError")>>
  /\ backendCalls = 0

\* C13: a failure of the external generator moves the session to Failed and
\* is reported as the error output of the generate; it is not reported as
\* success, not dropped, and no further call is made for the request.
C13_FailureReported ==
  [][ /\ (exc = "none" /\ exc' = "Error" =>
            /\ state = "Generating"
            /\ state' = "Failed"
            /\ backendCalls' = backendCalls)
      /\ (state = "Failed" =>
            /\ backendCalls' = backendCalls
            /\ sequences' = sequences
            /\ (state' # state =>
                  /\ state' = "Configured"
                  /\ outputs' = <<ErrorOutput("Error")>>)) ]_vars

C13_Witness ==
  /\ pc = "idle"
  /\ prevState = "Failed"
  /\ outputs = <<ErrorOutput("Error")>>
  /\ backendCalls = accepted

\* C14: Completed and Failed are left to Configured by the session itself,
\* without a caller operation, and the generate issued next is accepted and
\* dispatched.
C14_ReadyAgain ==
  [][ /\ (state \in {"Completed", "Failed"} /\ state' # state =>
            state' = "Configured" /\ execution_count' = execution_count)
      /\ (/\ state = "Configured"
          /\ prevState \in {"Completed", "Failed"}
          /\ GenerateIssued
          => backendCalls' = backendCalls + 1 /\ state' = "Generating") ]_vars

C14_Witness ==
  /\ state = "Generating"
  /\ prevState = "Configured"
  /\ backendCalls >= 2
  /\ interrupts = 0

SuppliedEos(n) == IF n = "falcon" THEN {eos_token_id} ELSE {}

C19_ProfileImmutable ==
  [][profile # <<>> => profile' = profile]_vars

C19_Witness ==
  /\ nb = "mistral"
  /\ profile = <<BnbConfig>>
  /\ interrupts >= 1
  /\ accepted >= 2
  /\ pc = "idle"

\* C20 (as stated): after a configure that failed, every generate is
\* refused without a call into the external generator.
C20_RefusedAfterFailedConfigure ==
  [][loadOutput = "error" /\ GenerateIssued =>
       backendCalls' = backendCalls /\ state' # "Generating"]_vars

\* C20 (amended): a configure that fails leaves the session as it was: an
\* Uninitialized session stays Uninitialized and refuses every generate
\* without a call; a session configured earlier keeps that configuration
\* and its generate is still dispatched.
C20_FailedConfigureKeepsSession ==
  [][ /\ (/\ execution_count' # execution_count
          /\ lastCell' = "load"
          /\ loadOutput' = "error"
          => state' = state /\ profile' = profile)
      /\ (loadOutput = "error" /\ GenerateIssued =>
            IF state = "Uninitialized"
            THEN backendCalls' = backendCalls /\ state' = state
            ELSE backendCalls' = backendCalls + 1) ]_vars

C20_Witness ==
  /\ loadOutput = "error"
  /\ lastCell = "generate"
  /\ pc = "call"
  /\ profile # <<>>

C22_InterruptedWritesNothing ==
  Interrupted =>
    /\ outputs = IF pc = "raise" THEN <<>>
                 ELSE <<ErrorOutput("KeyboardInterrupt")>>
    /\ \A k \in 1 .. Len(sequences) : sequences[k].request < backendCalls

C22_Witness ==
  /\ Interrupted
  /\ pc = "idle"
  /\ sequences # <<>>
  /\ interrupts = 1

\* C24: a generation cell whose call was dispatched ends: once the
\* external generator returns, raises or is interrupted, the session is
\* Completed, Failed or Interrupted.
C24_GenerateTerminates ==
  (state = "Generating") ~> (state \in {"Completed", "Interrupted", "Failed"})

C24_Witness ==
  /\ prevState = "Generating"
  /\ state = "Failed"
  /\ accepted = 2

====
